---- MODULE Spec2Model ----
(***************************************************************************)
(* State-machine model of the quantum-object core of the game:             *)
(*   QuantumSystem / QuantumObject   (src/js/quantum.js)                   *)
(*   Quantum variants, LevelManager  (src/js/objects.js)                   *)
(*   Player.handleClick              (src/js/player.js)                    *)
(*   Game                            (src/js/main.js)                      *)
(*                                                                         *)
(* Numbers.  Energy, drain rate and player speed are JavaScript doubles.   *)
(* They are kept as integers scaled by Scale = 2^MaxPowerups, which makes  *)
(* every halving (energyDrainRate *= 0.5) and every *1.5 exact.  Frame     *)
(* deltas are whole seconds.  Probabilities and uniform samples are        *)
(* percentages (0.3 is 30).                                                *)
(***************************************************************************)
EXTENDS Integers, Sequences, FiniteSets, TLC

(* ------------------------------ bounds -------------------------------- *)
\* Objects a level is built with (the game builds 15 + 10 + 5), dealt in turn to
\* the platforms, the collectibles and the obstacles.
LevelObjects == 3
\* Times loadLevel is called again after the game has started.
MaxReloads == 1
\* Power-ups ever spawned in one session.
MaxPowerups == 2
\* Simulated seconds after which no further frame is taken.
MaxTime == 11
\* Length in seconds of the drain scenario (observer mode on at full energy).
DrainSeconds == 10
\* Variant objects constructed directly, outside a level.
MaxVariants == 1
\* Direct collapse() calls made on them.
MaxCollapses == 2
\* QuantumElevator's maxHeight, in hundredths of a unit
MaxHeight == 12
\* the highest level number loaded
MaxLevel == 15

(* ------------------------- program constants -------------------------- *)
Null == -1
Undefined == -2
ObserverModeEnergy == 100
InitialDrainRate == 15
EnergyRechargeRate == 8
ObserverCollapsePercent == 30
DefaultCollapsePercent == 50
PlatformCollapsePercent == 70
ObstacleCollapsePercent == 30
CollapseScore == 10
ClickBonus == 5
CollectScore == 100
CollectionBonus == 50
CollectExplosionEffects == 20
InitialPlayerSpeed == 5
GameLevel == 1
\* The size of a level object ("1 + Math.random() * 1.5" for an obstacle), one
\* sample, in tenths.
LevelObjectSize == 20
BridgeCollapsePercent == 80
ElevatorCollapsePercent == 50
HazardCollapsePercent == 70
\* Player.radius, in tenths.
PlayerRadius == 3
\* QuantumElevator.speed, units per second
ElevatorSpeed == 2
\* the elevator's arrival tolerance 0.01, in hundredths of a unit
ElevatorTolerance == 1
\* the elevator's minHeight and half of its size.y, in hundredths of a unit
ElevatorMinHeight == 0
ElevatorHalfHeight == 5
\* frame deltas, in hundredths of a second
FrameDeltas == {1, 2}

\* LevelManager.platformCount, collectibleCount, obstacleCount, scaled down.
PlatformCount == (LevelObjects + 2) \div 3
CollectibleCount == (LevelObjects + 1) \div 3
ObstacleCount == LevelObjects \div 3
MaxObjects == LevelObjects * (1 + MaxReloads) + MaxPowerups
Objs == 1..MaxObjects
Scale == 2 ^ MaxPowerups
EnergyMax == ObserverModeEnergy * Scale
\* Frame deltas (seconds) handed to update(delta); clock.getDelta() is never negative.
Deltas == {0, 4, 7}
\* Frame deltas of the drain scenario: one call of DrainSeconds, or several frames.
DrainDeltas == {1, 2, 5, DrainSeconds}
\* Values of Math.random(), in percent.
ObserveSamples == {ObserverCollapsePercent - 1, ObserverCollapsePercent}
CollapseSamples == {0, DefaultCollapsePercent, 99}
Kinds == {"none", "platform", "obstacle", "collectible", "powerup",
          "door", "bridge", "elevator", "hazard"}
PowerupTypes == {"energy", "speed", "observer"}

VARIABLES
    isRunning,            \* Game.isRunning
    hasPlayer,            \* Game.player !== null
    score,                \* Game.score
    playerSpeed,          \* Player.speed (scaled)
    observerMode,         \* QuantumSystem.observerMode
    currentEnergy,        \* QuantumSystem.currentEnergy (scaled)
    energyDrainRate,      \* QuantumSystem.energyDrainRate (scaled)
    time,                 \* QuantumSystem.uniforms.time.value
    quantumObjects,       \* QuantumSystem.quantumObjects (the registry)
    nextId,               \* identity of the next object constructed
    levelsLoaded,         \* number of loadLevel calls so far
    kind,                 \* class of each object ("none": not constructed)
    ptype,                \* QuantumPowerup.type
    observedState,        \* QuantumObject.observedState
    collapseProbability,  \* QuantumObject.collapseProbability (percent)
    isHarmful,            \* QuantumObstacle / QuantumHazard .isHarmful
    isOpen,               \* QuantumDoor.isOpen
    isSolid,              \* QuantumBridge.isSolid
    size,                 \* QuantumObject.size.x
    positionY,            \* QuantumElevator.position.y (hundredths)
    frameDelta,           \* the frame loop's delta once it runs (hundredths of a second)
    inScene,              \* the object's mesh is a child of the scene
    isCollected,          \* QuantumCollectible / QuantumPowerup .isCollected
    platforms,            \* LevelManager.platforms
    obstacles,            \* LevelManager.obstacles
    collectibles,         \* LevelManager.collectibles
    levelCompleted,       \* LevelManager.levelCompleted
    currentLevel,         \* LevelManager.currentLevel
    portalActive,         \* Portal.active
    speedTimers,          \* pending setTimeout callbacks of speed power-ups
    observerTimers,       \* pending setTimeout callbacks of observer power-ups
    lastOp,               \* the operation that ran last
    lastBroadcast,        \* setObserverMode calls made by it: <<object, argument>>
    lastUpdated,          \* updateQuantumState calls made by it
    lastRecomputed,       \* objects whose superpositionFactor it assigned
    lastEffects,          \* createCollapseEffect requests made by it
    lastCaught,           \* objects whose failed collapse it caught and logged
    lastCall,             \* target, argument, sample, hit list and result of it
    thrown                \* an exception is propagating / left the operation

vars == <<isRunning, hasPlayer, score, playerSpeed, observerMode, currentEnergy,
          energyDrainRate, time, quantumObjects, nextId, levelsLoaded, kind, ptype,
          observedState, collapseProbability, isHarmful, isOpen, isSolid, size,
          positionY, frameDelta, inScene, isCollected,
          platforms, obstacles, collectibles, levelCompleted, currentLevel,
          portalActive, speedTimers, observerTimers, lastOp, lastBroadcast, lastUpdated,
          lastRecomputed, lastEffects, lastCaught, lastCall, thrown>>

(* ------------------------------ helpers ------------------------------- *)
Max(a, b) == IF a >= b THEN a ELSE b
Min(a, b) == IF a <= b THEN a ELSE b
Range(seq) == {seq[i] : i \in 1..Len(seq)}
NoDuplicates(seq) == \A i, j \in 1..Len(seq) : seq[i] = seq[j] => i = j

\* Array.prototype.indexOf: first position of x, 0 when absent (-1 in JavaScript).
IndexOf(seq, x) ==
    IF x \in Range(seq)
    THEN CHOOSE i \in 1..Len(seq) : seq[i] = x /\ \A j \in 1..(i - 1) : seq[j] # x
    ELSE 0

\* Array.prototype.splice(index, 1)
Splice(seq, i) == SubSeq(seq, 1, i - 1) \o SubSeq(seq, i + 1, Len(seq))

\* The program state as one record, threaded through nested calls.
State ==
    [isRunning |-> isRunning, hasPlayer |-> hasPlayer, score |-> score,
     playerSpeed |-> playerSpeed, observerMode |-> observerMode,
     currentEnergy |-> currentEnergy, energyDrainRate |-> energyDrainRate,
     time |-> time, quantumObjects |-> quantumObjects, nextId |-> nextId,
     levelsLoaded |-> levelsLoaded,
     kind |-> kind, ptype |-> ptype, observedState |-> observedState,
     collapseProbability |-> collapseProbability, isHarmful |-> isHarmful,
     isOpen |-> isOpen, isSolid |-> isSolid, size |-> size, positionY |-> positionY,
     frameDelta |-> frameDelta,
     inScene |-> inScene, isCollected |-> isCollected, platforms |-> platforms,
     obstacles |-> obstacles, collectibles |-> collectibles,
     levelCompleted |-> levelCompleted, currentLevel |-> currentLevel,
     portalActive |-> portalActive,
     speedTimers |-> speedTimers,
     observerTimers |-> observerTimers, lastOp |-> lastOp,
     lastBroadcast |-> lastBroadcast, lastUpdated |-> lastUpdated,
     lastRecomputed |-> lastRecomputed,
     lastEffects |-> lastEffects, lastCaught |-> lastCaught,
     lastCall |-> lastCall, thrown |-> thrown]

Commit(s) ==
    /\ isRunning' = s.isRunning
    /\ hasPlayer' = s.hasPlayer
    /\ score' = s.score
    /\ playerSpeed' = s.playerSpeed
    /\ observerMode' = s.observerMode
    /\ currentEnergy' = s.currentEnergy
    /\ energyDrainRate' = s.energyDrainRate
    /\ time' = s.time
    /\ quantumObjects' = s.quantumObjects
    /\ nextId' = s.nextId
    /\ levelsLoaded' = s.levelsLoaded
    /\ kind' = s.kind
    /\ ptype' = s.ptype
    /\ observedState' = s.observedState
    /\ collapseProbability' = s.collapseProbability
    /\ isHarmful' = s.isHarmful
    /\ isOpen' = s.isOpen
    /\ isSolid' = s.isSolid
    /\ size' = s.size
    /\ positionY' = s.positionY
    /\ frameDelta' = s.frameDelta
    /\ inScene' = s.inScene
    /\ isCollected' = s.isCollected
    /\ platforms' = s.platforms
    /\ obstacles' = s.obstacles
    /\ collectibles' = s.collectibles
    /\ levelCompleted' = s.levelCompleted
    /\ currentLevel' = s.currentLevel
    /\ portalActive' = s.portalActive
    /\ speedTimers' = s.speedTimers
    /\ observerTimers' = s.observerTimers
    /\ lastOp' = s.lastOp
    /\ lastBroadcast' = s.lastBroadcast
    /\ lastUpdated' = s.lastUpdated
    /\ lastRecomputed' = s.lastRecomputed
    /\ lastEffects' = s.lastEffects
    /\ lastCaught' = s.lastCaught
    /\ lastCall' = s.lastCall
    /\ thrown' = s.thrown

\* The log entry of an operation that is no direct call on an object.
NoCall == [target |-> 0, arg |-> Undefined, sample |-> Undefined, hits |-> <<>>,
           position |-> <<>>, result |-> Undefined]

\* The state in which operation op begins: the per-operation log starts empty.
Begin(op) ==
    [State EXCEPT !.lastOp = op, !.lastBroadcast = <<>>, !.lastUpdated = <<>>,
                  !.lastRecomputed = <<>>, !.lastEffects = 0, !.lastCaught = <<>>, !.lastCall = NoCall,
                  !.thrown = FALSE]

(* ------------------- QuantumObject (src/js/quantum.js) ---------------- *)
\* A draw is what one object's callback consumes during a broadcast or a click:
\* the Math.random() samples, whether the particle collaborator throws, and
\* whether the object's own setObserverMode override disposes the object.
NoDraw == [observe |-> ObserverCollapsePercent, collapse |-> 0,
           fault |-> FALSE, dispose |-> FALSE]

\* Unregistering without the test of the index: splice(-1, 1) on an absent
\* object removes the last element.
UnregisterUnguarded(reg, o) ==
    LET index == IndexOf(reg, o)
    IN IF index # 0 THEN Splice(reg, index) ELSE SubSeq(reg, 1, Len(reg) - 1)

\* Unregistering that leaves the registry as it is.
UnregisterNothing(reg, o) == reg

\* QuantumSystem.unregisterQuantumObject
UnregisterQuantumObject(reg, o) ==
    LET index == IndexOf(reg, o)
    IN IF index # 0 THEN Splice(reg, index) ELSE reg

\* QuantumSystem.registerQuantumObject
RegisterQuantumObject(reg, o) == Append(reg, o)

\* QuantumObject.dispose: the mesh leaves the scene, the object the registry.
Dispose(s, o) ==
    [s EXCEPT !.inScene[o] = FALSE,
              !.quantumObjects = UnregisterQuantumObject(@, o)]

\* The resolution with the comparison made inclusive.
ResolveStateInclusive(r, p) == IF r <= p THEN 1 ELSE 0

\* The state an unforced collapse resolves to: Math.random() < collapseProbability.
ResolveState(r, p) == IF r < p THEN 1 ELSE 0

\* collapse charging its 10 points instead of awarding them.
CollapseCharged(s, o, forcedState, r, fault) ==
    LET resolved == IF forcedState # Undefined
                    THEN forcedState
                    ELSE ResolveState(r, s.collapseProbability[o])
        s1 == [s EXCEPT !.observedState[o] = resolved]
    IN IF fault
       THEN [s1 EXCEPT !.thrown = TRUE]
       ELSE [s1 EXCEPT !.lastEffects = @ + 1, !.score = @ - CollapseScore]

\* QuantumObject.collapse. forcedState = Undefined is the call without argument.
\* With fault, particles.createCollapseEffect throws: observedState is already
\* set, the score is not yet added, and the exception propagates.
Collapse(s, o, forcedState, r, fault) ==
    LET resolved == IF forcedState # Undefined
                    THEN forcedState
                    ELSE ResolveState(r, s.collapseProbability[o])
        s1 == [s EXCEPT !.observedState[o] = resolved]
    IN IF fault
       THEN [s1 EXCEPT !.thrown = TRUE]
       ELSE [s1 EXCEPT !.lastEffects = @ + 1, !.score = @ + CollapseScore]

\* QuantumObstacle.collapse, after super.collapse returned.
ObstacleCollapse(s, o, forcedState, r, fault) ==
    LET s1 == Collapse(s, o, forcedState, r, fault)
    IN IF s1.thrown THEN s1
       ELSE [s1 EXCEPT !.isHarmful[o] =
                 IF s1.observedState[o] = 1 THEN "true" ELSE "false"]

\* QuantumPlatform.collapse: only the opacity changes after super.collapse.
PlatformCollapse(s, o, forcedState, r, fault) == Collapse(s, o, forcedState, r, fault)

\* The door left closed whatever the state.
DoorOpensNever(state) == "false"

\* QuantumDoor.collapse: "if (state === 1) ... isOpen = true else ... isOpen = false"
DoorOpens(state) == IF state = 1 THEN "true" ELSE "false"

\* QuantumDoor.collapse, after super.collapse returned.
DoorCollapse(s, o, forcedState, r, fault) ==
    LET s1 == Collapse(s, o, forcedState, r, fault)
    IN IF s1.thrown THEN s1
       ELSE [s1 EXCEPT !.isOpen[o] = DoorOpens(s1.observedState[o])]

\* QuantumBridge.collapse: "if (state === 0) ... isSolid = false else ... isSolid = true"
BridgeCollapse(s, o, forcedState, r, fault) ==
    LET s1 == Collapse(s, o, forcedState, r, fault)
    IN IF s1.thrown THEN s1
       ELSE [s1 EXCEPT !.isSolid[o] =
                 IF s1.observedState[o] = 0 THEN "false" ELSE "true"]

\* QuantumElevator.collapse: only targetHeight is assigned after super.collapse,
\* a field that update() does not read (it derives the target from observedState).
ElevatorCollapse(s, o, forcedState, r, fault) == Collapse(s, o, forcedState, r, fault)

\* QuantumHazard.collapse: after super.collapse returned, both branches call
\* this.material.color.set(...) before they assign isHarmful. The material is
\* the THREE.ShaderMaterial of createQuantumMaterial, which has no color
\* property, so the call throws a TypeError and isHarmful keeps its value.
HazardCollapse(s, o, forcedState, r, fault) ==
    LET s1 == Collapse(s, o, forcedState, r, fault)
    IN [s1 EXCEPT !.thrown = TRUE]

\* obj.collapse(...) as dispatched on the object's class.
CollapseOf(s, o, forcedState, r, fault) ==
    CASE s.kind[o] = "obstacle" -> ObstacleCollapse(s, o, forcedState, r, fault)
      [] s.kind[o] = "platform" -> PlatformCollapse(s, o, forcedState, r, fault)
      [] s.kind[o] = "door" -> DoorCollapse(s, o, forcedState, r, fault)
      [] s.kind[o] = "bridge" -> BridgeCollapse(s, o, forcedState, r, fault)
      [] s.kind[o] = "elevator" -> ElevatorCollapse(s, o, forcedState, r, fault)
      [] s.kind[o] = "hazard" -> HazardCollapse(s, o, forcedState, r, fault)
      [] OTHER -> Collapse(s, o, forcedState, r, fault)

\* QuantumObject.setObserverMode without its try/catch: the exception escapes.
SetObserverModeNoCatch(s, o, isObserverMode, d) ==
    IF isObserverMode /\ s.observedState[o] = Null /\ d.observe < ObserverCollapsePercent
    THEN CollapseOf(s, o, Undefined, d.collapse, d.fault)
    ELSE s

\* setObserverMode with the test of `active` lost: a superposed object is
\* collapsed whenever the mode is switched off.
SetObserverModeEager(s, o, isObserverMode, d) ==
    IF s.observedState[o] = Null /\ (isObserverMode => d.observe < ObserverCollapsePercent)
    THEN CollapseOf(s, o, Undefined, d.collapse, d.fault)
    ELSE s

\* QuantumObject.setObserverMode: a failure of the forced collapse is caught
\* and logged with console.error.
SetObserverMode(s, o, isObserverMode, d) ==
    IF isObserverMode /\ s.observedState[o] = Null
    THEN IF d.observe < ObserverCollapsePercent
         THEN LET s1 == CollapseOf(s, o, Undefined, d.collapse, d.fault)
              IN IF s1.thrown
                 THEN [s1 EXCEPT !.thrown = FALSE, !.lastCaught = Append(@, o)]
                 ELSE s1
         ELSE s
    ELSE s

\* obj.setObserverMode(...) as the registry's forEach calls it. An object whose
\* override disposes itself (d.dispose) does so after the inherited behaviour.
ObserverCallback(s, o, isObserverMode, d) ==
    LET s1 == SetObserverMode(s, o, isObserverMode, d)
    IN IF d.dispose /\ ~s1.thrown THEN Dispose(s1, o) ELSE s1

(* ------------------- QuantumSystem (src/js/quantum.js) ---------------- *)
\* this.quantumObjects.forEach(obj => obj.setObserverMode(this.observerMode)),
\* from index k on. forEach visits the indices below the initial length len0
\* that are still present in the live array when their turn comes, and an
\* exception leaving a callback ends the iteration.
RECURSIVE BroadcastFrom(_, _, _, _)
BroadcastFrom(s, k, len0, draws) ==
    IF k > len0 \/ k > Len(s.quantumObjects) \/ s.thrown
    THEN s
    ELSE LET o == s.quantumObjects[k]
             s1 == [s EXCEPT !.lastBroadcast = Append(@, <<o, s.observerMode>>)]
         IN BroadcastFrom(ObserverCallback(s1, o, s.observerMode, draws[o]),
                          k + 1, len0, draws)

\* The same iteration started one element late.
BroadcastSkippingFirst(s, draws) ==
    BroadcastFrom(s, 2, Len(s.quantumObjects), draws)

\* "Apply observer mode effect to all quantum objects"
Broadcast(s, draws) == BroadcastFrom(s, 1, Len(s.quantumObjects), draws)

\* The energy gate with the comparison off by one.
ToggleRefusedStrict(mode, energy) == ~mode /\ energy < 0

\* "Only allow toggling ON if there's energy": the early return.
ToggleRefused(mode, energy) == ~mode /\ energy <= 0

\* QuantumSystem.toggleObserverMode(forceState); forceState is "undefined"
\* (no argument), "true" or "false".
ToggleObserverMode(s, forceState, draws) ==
    IF forceState # "undefined"
    THEN Broadcast([s EXCEPT !.observerMode = (forceState = "true")], draws)
    ELSE IF ToggleRefused(s.observerMode, s.currentEnergy)
         THEN s
         ELSE Broadcast([s EXCEPT !.observerMode = ~@], draws)

\* Draining without the clamp at zero.
DrainEnergyUnclamped(energy, rate, delta) == energy - rate * delta

\* Math.max(0, currentEnergy - energyDrainRate * delta)
DrainEnergy(energy, rate, delta) == Max(0, energy - rate * delta)

\* Recharging without the cap at the maximum.
RechargeEnergyUncapped(energy, delta) == energy + EnergyRechargeRate * Scale * delta

\* Recharging with the sign of the rate flipped.
RechargeEnergyInverted(energy, delta) ==
    Min(EnergyMax, energy - EnergyRechargeRate * Scale * delta)

\* Math.min(observerModeEnergy, currentEnergy + energyRechargeRate * delta)
RechargeEnergy(energy, delta) ==
    Min(EnergyMax, energy + EnergyRechargeRate * Scale * delta)

\* The depletion test with the comparison off by one.
EnergyDepletedStrict(energy) == energy < 0

\* "Turn off observer mode if energy depleted"
EnergyDepleted(energy) == energy <= 0

\* QuantumSystem.handleObserverModeEnergy
HandleObserverModeEnergy(s, delta) ==
    IF s.observerMode
    THEN LET s1 == [s EXCEPT !.currentEnergy =
                        DrainEnergy(@, s.energyDrainRate, delta)]
         IN IF EnergyDepleted(s1.currentEnergy)
            THEN ToggleObserverMode(s1, "false", [o \in Objs |-> NoDraw])
            ELSE s1
    ELSE [s EXCEPT !.currentEnergy = RechargeEnergy(@, delta)]

\* Math.sin in thousandths, of an angle in hundredths of a radian, by
\* Bhaskara's rational approximation on each half period.
PiCenti == 314
HalfWave(x) == (16000 * x * (PiCenti - x)) \div (5 * PiCenti * PiCenti - 4 * x * (PiCenti - x))
Sin(a) ==
    LET m == a % (2 * PiCenti)
    IN IF m < PiCenti THEN HalfWave(m) ELSE 0 - HalfWave(m - PiCenti)

\* Math.cos(a) = Math.sin(a + pi/2)
Cos(a) == Sin(a + PiCenti \div 2)

\* "Math.sin(...) * 0.5 + 0.5", in thousandths
Amplitude(sine) == sine \div 2 + 500

\* QuantumSystem.getWaveFunction(position, time); s is the receiver,
\* positions are in tenths, the time in seconds, the result in thousandths.
GetWaveFunction(s, position, t) ==
    Amplitude(Sin(position[1] + position[2] + position[3] + t * 200))

\* getSuperpositionState reading the system's own time uniform instead of its
\* argument.
GetSuperpositionStateOfUniform(s, position, t) ==
    LET state1 == Amplitude(Sin(position[1] * 2 + s.time * 150))
        state2 == Amplitude(Cos(position[3] * 3 + s.time * 200))
        state3 == Amplitude(Sin((position[2] * 25) \div 10 + s.time * 100))
    IN (state1 * 4 + state2 * 3 + state3 * 3) \div 10

\* QuantumSystem.getSuperpositionState(position, time)
GetSuperpositionState(s, position, t) ==
    LET state1 == Amplitude(Sin(position[1] * 2 + t * 150))
        state2 == Amplitude(Cos(position[3] * 3 + t * 200))
        state3 == Amplitude(Sin((position[2] * 25) \div 10 + t * 100))
    IN (state1 * 4 + state2 * 3 + state3 * 3) \div 10

\* updateQuantumState with its early return dropped.
StateRecomputedAlways(s, o) == TRUE

\* QuantumObject.updateQuantumState: "if (this.observedState !== null) return;"
StateRecomputed(s, o) == s.observedState[o] = Null

\* QuantumSystem.updateQuantumObjects: updateQuantumState on every registered
\* object. A collapsed object returns at once; for the others
\* superpositionFactor is assigned getSuperpositionState(position, time). The
\* number is presentational: its assignments are logged, its value is not kept.
UpdateQuantumObjects(s) ==
    [s EXCEPT !.lastUpdated = s.quantumObjects,
              !.lastRecomputed =
                  SelectSeq(s.quantumObjects, LAMBDA o : StateRecomputed(s, o))]

\* update with the time uniform assigned instead of accumulated.
QuantumSystemUpdateAssign(s, delta) ==
    LET s1 == [s EXCEPT !.time = delta]
        s2 == HandleObserverModeEnergy(s1, delta)
    IN IF s2.thrown THEN s2 ELSE UpdateQuantumObjects(s2)

\* QuantumSystem.update
QuantumSystemUpdate(s, delta) ==
    LET s1 == [s EXCEPT !.time = @ + delta]
        s2 == HandleObserverModeEnergy(s1, delta)
    IN IF s2.thrown THEN s2 ELSE UpdateQuantumObjects(s2)

(* ------------- object construction, variants (src/js/objects.js) ------ *)
\* new QuantumX(game, ...): the QuantumObject constructor registers the object
\* and adds its mesh to the scene; the subclass sets its collapse probability.
\* isCollected is "undefined" where the constructor does not set it.
NewObject(s, k, t, p, collected) ==
    LET o == s.nextId
    IN [s EXCEPT !.nextId = @ + 1,
                 !.kind[o] = k,
                 !.ptype[o] = t,
                 !.observedState[o] = Null,
                 !.collapseProbability[o] = p,
                 !.isHarmful[o] = "undefined",
                 !.isOpen[o] = "undefined",
                 !.isSolid[o] = "undefined",
                 !.size[o] = LevelObjectSize,
                 !.positionY[o] = 0,
                 !.inScene[o] = TRUE,
                 !.isCollected[o] = collected,
                 !.quantumObjects = RegisterQuantumObject(@, o)]

\* LevelManager.createPlatforms, for n platforms
RECURSIVE CreatePlatforms(_, _)
CreatePlatforms(s, n) ==
    IF n = 0 THEN s
    ELSE LET s1 == NewObject(s, "platform", "none", PlatformCollapsePercent, "undefined")
         IN CreatePlatforms([s1 EXCEPT !.platforms = Append(@, s.nextId)], n - 1)

\* LevelManager.createObstacles, for n obstacles
RECURSIVE CreateObstacles(_, _)
CreateObstacles(s, n) ==
    IF n = 0 THEN s
    ELSE LET s1 == NewObject(s, "obstacle", "none", ObstacleCollapsePercent, "undefined")
         IN CreateObstacles([s1 EXCEPT !.obstacles = Append(@, s.nextId)], n - 1)

\* LevelManager.createCollectibles, for n collectibles
RECURSIVE CreateCollectibles(_, _)
CreateCollectibles(s, n) ==
    IF n = 0 THEN s
    ELSE LET s1 == NewObject(s, "collectible", "none", DefaultCollapsePercent, "undefined")
         IN CreateCollectibles([s1 EXCEPT !.collectibles = Append(@, s.nextId)], n - 1)

\* list.forEach(x => x.dispose()) over one of the level manager's lists
RECURSIVE DisposeAll(_, _, _)
DisposeAll(s, list, i) ==
    IF i > Len(list) THEN s ELSE DisposeAll(Dispose(s, list[i]), list, i + 1)

\* clearLevel that empties the three lists without disposing their objects.
ClearLevelListsOnly(s) ==
    [s EXCEPT !.platforms = <<>>, !.obstacles = <<>>, !.collectibles = <<>>]

\* LevelManager.clearLevel
ClearLevel(s) ==
    LET s1 == [DisposeAll(s, s.platforms, 1) EXCEPT !.platforms = <<>>]
        s2 == [DisposeAll(s1, s1.obstacles, 1) EXCEPT !.obstacles = <<>>]
    IN [DisposeAll(s2, s2.collectibles, 1) EXCEPT !.collectibles = <<>>]

\* updateDifficulty without its two lower limits.
UpdateDifficultyUnclamped(s) ==
    LET difficulty == s.currentLevel
        obstacleP == 50 - difficulty * 5
        platformP == 70 - difficulty * 3
    IN [s EXCEPT !.collapseProbability =
            [o \in Objs |-> IF o \in Range(s.obstacles) THEN obstacleP
                            ELSE IF o \in Range(s.platforms) THEN platformP
                            ELSE @[o]]]

\* LevelManager.updateDifficulty (probabilities in percent)
UpdateDifficulty(s) ==
    LET difficulty == s.currentLevel
        obstacleP == Max(10, 50 - difficulty * 5)
        platformP == Max(30, 70 - difficulty * 3)
    IN [s EXCEPT !.collapseProbability =
            [o \in Objs |-> IF o \in Range(s.obstacles) THEN obstacleP
                            ELSE IF o \in Range(s.platforms) THEN platformP
                            ELSE @[o]]]

\* Portal.setPortalActive
SetPortalActive(s, isActive) == [s EXCEPT !.portalActive = isActive]

\* Portal.createPortal, called by LevelManager.createPortal: "Start in
\* inactive state".
CreatePortal(s) == SetPortalActive(s, FALSE)

\* Portal.update: the portal is activated once the level is completed.
PortalUpdate(s) ==
    IF s.levelCompleted THEN SetPortalActive(s, TRUE) ELSE s

\* LevelManager.loadLevel
LoadLevel(s, level) ==
    LET s1 == [ClearLevel(s) EXCEPT !.currentLevel = level, !.levelCompleted = FALSE,
                                    !.levelsLoaded = @ + 1]
    IN UpdateDifficulty(
           CreatePortal(
               CreateCollectibles(
                   CreateObstacles(CreatePlatforms(s1, PlatformCount), ObstacleCount),
                   CollectibleCount)))

\* collect without its isCollected guard: every call collects again.
CollectibleCollectAgain(s, o) ==
    Dispose([s EXCEPT !.isCollected[o] = "true",
                      !.lastEffects = @ + 1 + CollectExplosionEffects,
                      !.score = @ + CollectScore], o)

\* QuantumCollectible.collect
CollectibleCollect(s, o) ==
    IF s.isCollected[o] = "true" THEN s
    ELSE Dispose([s EXCEPT !.isCollected[o] = "true",
                           !.lastEffects = @ + 1 + CollectExplosionEffects,
                           !.score = @ + CollectScore], o)

\* checkLevelCompletion without the test of the collectibles list.
CheckLevelCompletionEager(s) == [s EXCEPT !.levelCompleted = TRUE]

\* LevelManager.checkLevelCompletion
CheckLevelCompletion(s) ==
    IF Len(s.collectibles) = 0 /\ ~s.levelCompleted
    THEN [s EXCEPT !.levelCompleted = TRUE]
    ELSE s

\* LevelManager.checkCollectibleCollection: the loop from index i down to 1;
\* near is the set of collectibles within 1.5 of the player.
RECURSIVE CollectFrom(_, _, _)
CollectFrom(s, i, near) ==
    IF i < 1 THEN s
    ELSE IF s.collectibles[i] \in near
         THEN LET s1 == CollectibleCollect(s, s.collectibles[i])
              IN CollectFrom([s1 EXCEPT !.collectibles = Splice(@, i),
                                        !.score = @ + CollectionBonus],
                             i - 1, near)
         ELSE CollectFrom(s, i - 1, near)

\* LevelManager.checkCollectibleCollection
CheckCollectibleCollection(s, near) ==
    IF ~s.hasPlayer THEN s ELSE CollectFrom(s, Len(s.collectibles), near)

\* LevelManager.update
LevelManagerUpdate(s, near) ==
    CheckCollectibleCollection(CheckLevelCompletion(s), near)

\* QuantumPowerup.collect
PowerupCollect(s, o) ==
    IF s.isCollected[o] = "true" THEN s
    ELSE LET s1 == [s EXCEPT !.isCollected[o] = "true"]
             s2 == CASE s.ptype[o] = "energy" ->
                          [s1 EXCEPT !.currentEnergy = EnergyMax]
                      [] s.ptype[o] = "speed" ->
                          IF s1.hasPlayer
                          THEN [s1 EXCEPT !.playerSpeed = (@ * 3) \div 2,
                                          !.speedTimers = Append(@, s.playerSpeed)]
                          ELSE s1
                      [] s.ptype[o] = "observer" ->
                          [s1 EXCEPT !.energyDrainRate = @ \div 2,
                                     !.observerTimers = Append(@, s.energyDrainRate)]
                      [] OTHER -> s1
         IN Dispose([s2 EXCEPT !.lastEffects = @ + 1,
                               !.score = @ + CollectScore], o)

\* The classes a variant can be constructed from, with the collapse
\* probability their constructors set (percent).
VariantKinds == {"platform", "obstacle", "collectible", "powerup",
                 "door", "bridge", "elevator", "hazard"}

ConstructedProbability(k) ==
    CASE k = "platform" -> PlatformCollapsePercent
      [] k = "obstacle" -> ObstacleCollapsePercent
      [] k = "bridge" -> BridgeCollapsePercent
      [] k = "elevator" -> ElevatorCollapsePercent
      [] k = "hazard" -> HazardCollapsePercent
      [] OTHER -> DefaultCollapsePercent

\* new QuantumX(game, position, size, ...) for any variant, of size sz: the
\* door starts closed, the hazard harmful, the power-up (type 'energy' by
\* default) not collected.
NewVariant(s, k, sz) ==
    LET o == s.nextId
        s1 == NewObject(s, k, IF k = "powerup" THEN "energy" ELSE "none",
                        ConstructedProbability(k),
                        IF k = "powerup" THEN "false" ELSE "undefined")
    IN [s1 EXCEPT !.size[o] = sz,
                  !.positionY[o] = IF k = "elevator"
                                   THEN ElevatorMinHeight + ElevatorHalfHeight ELSE @,
                  !.isOpen[o] = IF k = "door" THEN "false" ELSE @,
                  !.isHarmful[o] = IF k = "hazard" THEN "true" ELSE @]

\* size.x / 2 + playerRadius (sizes are even numbers of tenths)
CombinedRadius(sz, playerRadius) == sz \div 2 + playerRadius

\* The obstacle's collision test with the boundary included.
ObstacleCollidesInclusive(s, o, distance, playerRadius) ==
    /\ s.observedState[o] = 1
    /\ distance <= CombinedRadius(s.size[o], playerRadius)

\* QuantumObstacle.checkPlayerCollision
ObstacleCollides(s, o, distance, playerRadius) ==
    /\ s.observedState[o] = 1
    /\ distance < CombinedRadius(s.size[o], playerRadius)

Abs(x) == IF x < 0 THEN -x ELSE x

\* "observedState === 1 ? maxHeight : minHeight"
ElevatorTarget(state) == IF state = 1 THEN MaxHeight ELSE ElevatorMinHeight

\* "Smoothly move to target": a full step of speed * delta toward the target
\* while farther than the tolerance from it, the target itself otherwise.
ElevatorMove(y, targetHeight, delta) ==
    IF Abs(y - targetHeight) > ElevatorTolerance
    THEN y + (IF targetHeight > y THEN 1 ELSE -1) * ElevatorSpeed * delta
    ELSE targetHeight

\* QuantumElevator.update(delta). wave is the height the sinusoid of the
\* current time gives, a value between minHeight and maxHeight.
ElevatorUpdate(s, o, delta, wave) ==
    LET s1 == [s EXCEPT !.lastUpdated = Append(@, o),
                        !.lastRecomputed = IF StateRecomputed(s, o) THEN Append(@, o) ELSE @]
    IN IF s.observedState[o] = Null
       THEN [s1 EXCEPT !.positionY[o] = wave]
       ELSE [s1 EXCEPT !.positionY[o] =
                 ElevatorMove(@, ElevatorTarget(s.observedState[o]), delta)]

\* QuantumHazard.checkPlayerCollision
HazardCollides(s, o, distance, playerRadius) ==
    /\ s.isHarmful[o] = "true"
    /\ distance < CombinedRadius(s.size[o], playerRadius)

(* -------------------- Player.handleClick (src/js/player.js) ----------- *)
\* The scan of the hit list without its break: the farthest clickable mesh.
RECURSIVE LastClickable(_, _)
LastClickable(hits, i) ==
    IF i > Len(hits) THEN 0
    ELSE LET rest == LastClickable(hits, i + 1)
         IN IF rest # 0 THEN rest ELSE hits[i]

\* The first entry of the ray's hit list that is a clickable quantum mesh;
\* 0 in the list stands for a mesh that is not clickable (floor, glow, light).
RECURSIVE FirstClickable(_, _)
FirstClickable(hits, i) ==
    IF i > Len(hits) THEN 0
    ELSE IF hits[i] # 0 THEN hits[i] ELSE FirstClickable(hits, i + 1)

\* The click guard dropped: every clicked object is collapsed again.
ClickCollapsesAlways(s, o) == TRUE

\* "if (quantumObject.observedState === null)"
ClickCollapses(s, o) == s.observedState[o] = Null

\* Player.handleClick
HandleClick(s, hits, d) ==
    IF ~s.isRunning THEN s
    ELSE LET o == FirstClickable(hits, 1)
         IN IF o = 0 THEN s
            ELSE IF ClickCollapses(s, o)
                 THEN LET s1 == CollapseOf(s, o, Undefined, d.collapse, d.fault)
                      IN IF s1.thrown THEN s1
                         ELSE [s1 EXCEPT !.score = @ + ClickBonus]
                 ELSE s

(* ------------------------------ inputs -------------------------------- *)
\* The draws object o can consume in a toggle: samples only when it will be
\* asked to collapse (the mode is turning on and it is registered and
\* superposed), a second sample only when the first one forces a collapse.
DrawSet(o, faults, disposes) ==
    LET registered == o \in Range(quantumObjects)
        turningOn == ~observerMode /\ ~ToggleRefused(observerMode, currentEnergy)
        samples == IF turningOn /\ registered /\ observedState[o] = Null
                   THEN {[observe |-> ObserverCollapsePercent, collapse |-> 0, fault |-> FALSE]}
                        \cup {[observe |-> ObserverCollapsePercent - 1, collapse |-> c, fault |-> f] :
                                 c \in CollapseSamples, f \in faults}
                   ELSE {[observe |-> ObserverCollapsePercent, collapse |-> 0, fault |-> FALSE]}
    IN {[observe |-> d.observe, collapse |-> d.collapse, fault |-> d.fault, dispose |-> x] :
           d \in samples, x \in (IF registered THEN disposes ELSE {FALSE})}

\* All assignments of draws to the objects of S.
RECURSIVE DrawFns(_, _, _)
DrawFns(S, faults, disposes) ==
    IF S = {} THEN {<<>>}
    ELSE LET o == CHOOSE x \in S : TRUE
         IN {f @@ (o :> d) : f \in DrawFns(S \ {o}, faults, disposes),
                             d \in DrawSet(o, faults, disposes)}

\* The draws object o can consume in toggleObserverMode(forceState) with an
\* explicit forceState: samples whenever the mode broadcast is true and the
\* object is registered and superposed.
ForcedDrawSet(o, forceState) ==
    IF forceState = "true" /\ o \in Range(quantumObjects) /\ observedState[o] = Null
    THEN {NoDraw} \cup {[observe |-> ObserverCollapsePercent - 1, collapse |-> c,
                         fault |-> FALSE, dispose |-> FALSE] : c \in CollapseSamples}
    ELSE {NoDraw}

RECURSIVE ForcedDrawFns(_, _)
ForcedDrawFns(S, forceState) ==
    IF S = {} THEN {<<>>}
    ELSE LET o == CHOOSE x \in S : TRUE
         IN {f @@ (o :> d) : f \in ForcedDrawFns(S \ {o}, forceState),
                             d \in ForcedDrawSet(o, forceState)}

\* The draws of a click on hit list hits: one sample for the collapse, consumed
\* only when the object clicked is still superposed.
ClickDraws(hits, faults) ==
    LET o == FirstClickable(hits, 1)
    IN IF isRunning /\ o # 0 /\ observedState[o] = Null
       THEN {[observe |-> ObserverCollapsePercent, collapse |-> c, fault |-> f,
              dispose |-> FALSE] : c \in CollapseSamples, f \in faults}
       ELSE {NoDraw}

\* Hit lists of a ray, nearest first: at most two meshes, each a quantum
\* object's mesh in the scene or (0) a mesh that is not clickable. Behind a
\* quantum object's mesh one other quantum mesh stands for all of them.
HitLists ==
    LET meshes == {o \in Objs : inScene[o]}
        Behind(a) == CHOOSE b \in meshes \ {a} : TRUE
    IN {<<>>, <<0>>} \cup {<<a>> : a \in meshes} \cup {<<0, a>> : a \in meshes}
       \cup {<<a, Behind(a)>> : a \in {m \in meshes : meshes \ {m} # {}}}

(* ------------------------------ actions ------------------------------- *)
Init ==
    /\ isRunning = FALSE
    /\ hasPlayer = FALSE
    /\ score = 0
    /\ playerSpeed = InitialPlayerSpeed * Scale
    /\ observerMode = FALSE
    /\ currentEnergy = EnergyMax
    /\ energyDrainRate = InitialDrainRate * Scale
    /\ time = 0
    /\ quantumObjects = <<>>
    /\ nextId = 1
    /\ levelsLoaded = 0
    /\ kind = [o \in Objs |-> "none"]
    /\ ptype = [o \in Objs |-> "none"]
    /\ observedState = [o \in Objs |-> Null]
    /\ collapseProbability = [o \in Objs |-> DefaultCollapsePercent]
    /\ isHarmful = [o \in Objs |-> "undefined"]
    /\ isOpen = [o \in Objs |-> "undefined"]
    /\ isSolid = [o \in Objs |-> "undefined"]
    /\ size = [o \in Objs |-> 0]
    /\ positionY = [o \in Objs |-> 0]
    /\ frameDelta = 0
    /\ inScene = [o \in Objs |-> FALSE]
    /\ isCollected = [o \in Objs |-> "undefined"]
    /\ platforms = <<>>
    /\ obstacles = <<>>
    /\ collectibles = <<>>
    /\ levelCompleted = FALSE
    /\ currentLevel = 1
    /\ portalActive = FALSE
    /\ speedTimers = <<>>
    /\ observerTimers = <<>>
    /\ lastOp = "init"
    /\ lastBroadcast = <<>>
    /\ lastUpdated = <<>>
    /\ lastRecomputed = <<>>
    /\ lastEffects = 0
    /\ lastCaught = <<>>
    /\ lastCall = NoCall
    /\ thrown = FALSE

\* Game.startGame: the level is loaded, the player created, the loop started.
StartGame ==
    /\ ~isRunning
    /\ \E s \in {[LoadLevel(Begin("startGame"), GameLevel)
                      EXCEPT !.hasPlayer = TRUE, !.isRunning = TRUE]} : Commit(s)

\* LevelManager.loadLevel called again on a running game.
ReloadLevel ==
    /\ isRunning
    /\ levelsLoaded <= MaxReloads
    /\ \E s \in {LoadLevel(Begin("loadLevel"), GameLevel)} : Commit(s)

\* levelManager.loadLevel(level) on a running game, for any level number.
LoadLevelAt ==
    /\ isRunning
    /\ levelsLoaded <= MaxReloads
    /\ \E level \in 0..MaxLevel :
          \E s \in {LoadLevel(Begin("loadLevel"), level)} : Commit(s)

\* The 'E' key: toggleObserverMode() with no argument.
KeyToggleWith(faults, disposes) ==
    \E draws \in DrawFns(Objs, faults, disposes) :
        \E s \in {ToggleObserverMode(Begin("toggle"), "undefined", draws)} : Commit(s)

KeyToggle == KeyToggleWith({FALSE}, {FALSE})

\* The 'E' key when every Math.random() sample of the broadcast is 0.3 or
\* more: no object collapses.
KeyToggleQuiet ==
    \E s \in {ToggleObserverMode(Begin("toggle"), "undefined", [o \in Objs |-> NoDraw])} :
        Commit(s)

\* quantum.toggleObserverMode(forceState) called with an explicit state. The
\* log keeps the argument (1 true, 0 false).
ForcedToggle ==
    \E forceState \in {"true", "false"} :
        \E draws \in ForcedDrawFns(Objs, forceState) :
            \E s \in {ToggleObserverMode(
                          [Begin("toggle") EXCEPT
                               !.lastCall = [NoCall EXCEPT
                                                 !.arg = IF forceState = "true" THEN 1 ELSE 0]],
                          forceState, draws)} : Commit(s)

\* One frame's QuantumSystem.update(delta), the frame loop running. Game.animate
\* calls it and then LevelManager.update; the two touch disjoint state and are
\* taken as operations of their own.
QuantumUpdateWith(deltas, limit) ==
    /\ isRunning
    /\ \E delta \in deltas :
          /\ time + delta <= limit
          /\ \E s \in {QuantumSystemUpdate(Begin("update"), delta)} : Commit(s)

QuantumUpdate == QuantumUpdateWith(Deltas, MaxTime)

\* One frame's Portal.update(delta), the frame loop running.
PortalFrame ==
    /\ isRunning
    /\ \E s \in {PortalUpdate(Begin("portalUpdate"))} : Commit(s)

\* The same frame, the log keeping the delta it was called with.
QuantumUpdateLogged ==
    /\ isRunning
    /\ \E delta \in Deltas :
          /\ time + delta <= MaxTime
          /\ \E s \in {QuantumSystemUpdate([Begin("update") EXCEPT
                                               !.lastCall = [NoCall EXCEPT !.arg = delta]],
                                           delta)} : Commit(s)

\* Positions (tenths of a unit) and times (seconds) the wave functions are
\* asked about.
Positions == {<<0, 0, 0>>, <<10, 5, 20>>}
Times == {0, 1, 4}

\* quantum.getSuperpositionState(position, time), as updateQuantumState calls
\* it; the log keeps the arguments and the value returned.
SuperpositionQuery ==
    \E position \in Positions, t \in Times :
        \E s \in {[Begin("getSuperpositionState") EXCEPT
                        !.lastCall = [NoCall EXCEPT
                                          !.arg = t, !.position = position,
                                          !.result = GetSuperpositionState(State, position, t)]]} :
            Commit(s)

\* quantum.getWaveFunction(position, time)
WaveQuery ==
    \E position \in Positions, t \in Times :
        \E s \in {[Begin("getWaveFunction") EXCEPT
                        !.lastCall = [NoCall EXCEPT
                                          !.arg = t, !.position = position,
                                          !.result = GetWaveFunction(State, position, t)]]} :
            Commit(s)

\* One frame's LevelManager.update(delta).
LevelUpdate ==
    /\ isRunning
    /\ \E near \in SUBSET Range(collectibles) :
          \E s \in {LevelManagerUpdate(Begin("levelUpdate"), near)} : Commit(s)

\* A mouse click (the listener exists once the player does).
ClickWith(faults) ==
    /\ hasPlayer
    /\ \E hits \in HitLists :
          \E d \in ClickDraws(hits, faults) :
              \E s \in {HandleClick(Begin("click"), hits, d)} : Commit(s)

\* The same click, the log keeping the ray's hit list.
ClickLogged ==
    /\ hasPlayer
    /\ \E hits \in HitLists :
          \E d \in ClickDraws(hits, {FALSE}) :
              \E s \in {HandleClick([Begin("click") EXCEPT
                                         !.lastCall = [NoCall EXCEPT !.hits = hits]],
                                     hits, d)} : Commit(s)

Click == ClickWith({FALSE})

\* new QuantumPowerup(game, position, type)
SpawnPowerupOf(types) ==
    /\ isRunning
    /\ Cardinality({o \in Objs : kind[o] = "powerup"}) < MaxPowerups
    /\ \E t \in types :
          \E s \in {NewObject(Begin("spawnPowerup"), "powerup", t,
                             DefaultCollapsePercent, "false")} : Commit(s)

SpawnPowerup == SpawnPowerupOf(PowerupTypes)

\* new QuantumPowerup(game, position): the type defaults to 'energy'.
SpawnEnergyPowerup == SpawnPowerupOf({"energy"})

\* powerup.collect()
CollectPowerup ==
    \E o \in Objs :
        /\ kind[o] = "powerup"
        /\ \E s \in {PowerupCollect(Begin("collectPowerup"), o)} : Commit(s)

\* The speed power-up's setTimeout callback (timers of equal delay fire in order).
SpeedTimerFires ==
    /\ speedTimers # <<>>
    /\ \E s \in {[Begin("speedTimer") EXCEPT
                        !.speedTimers = Tail(@),
                        !.playerSpeed = IF hasPlayer THEN Head(speedTimers) ELSE @]} :
          Commit(s)

\* The observer power-up's setTimeout callback.
ObserverTimerFires ==
    /\ observerTimers # <<>>
    /\ \E s \in {[Begin("observerTimer") EXCEPT
                        !.observerTimers = Tail(@),
                        !.energyDrainRate = Head(observerTimers)]} :
          Commit(s)

\* quantum.unregisterQuantumObject(obj) called directly, for an object of the
\* game or one the registry never held; the log keeps the index it found (0
\* for JavaScript's -1).
UnregisterCall ==
    \E o \in Objs :
        \E s \in {[Begin("unregister") EXCEPT
                        !.quantumObjects = UnregisterQuantumObject(@, o),
                        !.lastCall = [NoCall EXCEPT !.target = o,
                                                    !.result = IndexOf(quantumObjects, o)]]} :
            Commit(s)

\* Sizes a variant is constructed with, in tenths.
Sizes == {10, LevelObjectSize}

\* new QuantumX(...) called directly, before any level is loaded, for a class
\* among kinds and a size among sizes.
SpawnVariantOf(kinds, sizes) ==
    /\ ~isRunning
    /\ nextId <= MaxVariants
    /\ \E k \in kinds, sz \in sizes :
          \E s \in {NewVariant(Begin("spawnVariant"), k, sz)} : Commit(s)

SpawnVariant == SpawnVariantOf(VariantKinds, {LevelObjectSize})

\* new QuantumObstacle(...) or new QuantumHazard(...), the classes with a
\* collision query.
SpawnHarmful == SpawnVariantOf({"obstacle", "hazard"}, Sizes)

\* obj.collapseProbability = p, as LevelManager.updateDifficulty assigns it.
SetProbability ==
    \E o \in Range(quantumObjects), p \in {0, 100} :
        /\ collapseProbability[o] # p
        /\ \E s \in {[Begin("setProbability") EXCEPT !.collapseProbability[o] = p]} :
              Commit(s)

\* obj.collapse(forcedState) or obj.collapse() called directly on a registered
\* object. The log keeps the argument, the Math.random() sample an unforced
\* call draws, and the value returned (Undefined when the call threw).
CollapseCallOn(targets) ==
    /\ score < MaxCollapses * CollapseScore
    /\ \E o \in targets, f \in {Undefined, 0, 1} :
          \E r \in (IF f = Undefined THEN CollapseSamples ELSE {Undefined}) :
              \E s \in {CollapseOf([Begin("collapse") EXCEPT
                                        !.lastCall = [NoCall EXCEPT !.target = o, !.arg = f,
                                                                    !.sample = r]],
                                    o, f, r, FALSE)} :
                  Commit([s EXCEPT !.lastCall.result =
                              IF s.thrown THEN Undefined ELSE s.observedState[o]])

CollapseCall == CollapseCallOn(Range(quantumObjects))

\* The same call on a collectible or a power-up.
CollapseCollectable ==
    CollapseCallOn({o \in Range(quantumObjects) : kind[o] \in {"collectible", "powerup"}})

\* Distances at which a collision with object o is queried: around the
\* combined radius, and at the object itself.
Distances(o) ==
    LET radius == CombinedRadius(size[o], PlayerRadius)
    IN {0, radius - 1, radius, radius + 1}

\* obstacle.checkPlayerCollision(playerPosition, playerRadius) or
\* hazard.checkPlayerCollision(...), the player at the given distance. The log
\* keeps the distance and the result (1 true, 0 false); nothing else changes.
CheckPlayerCollision ==
    \E o \in Range(quantumObjects) :
        /\ kind[o] \in {"obstacle", "hazard"}
        /\ \E distance \in Distances(o) :
              LET hit == IF kind[o] = "obstacle"
                         THEN ObstacleCollides(State, o, distance, PlayerRadius)
                         ELSE HazardCollides(State, o, distance, PlayerRadius)
              IN \E s \in {[Begin("checkPlayerCollision") EXCEPT
                                 !.lastCall = [NoCall EXCEPT !.target = o, !.arg = distance,
                                                             !.result = IF hit THEN 1 ELSE 0]]} :
                     Commit(s)

\* new QuantumElevator(game, position, size, minHeight, maxHeight)
SpawnElevator == SpawnVariantOf({"elevator"}, {LevelObjectSize})

\* One frame's elevator.update(delta). The frame loop's delta is chosen with
\* the first frame and is the same in every later one.
ElevatorFrame ==
    \E o \in Range(quantumObjects) :
        /\ kind[o] = "elevator"
        /\ \E delta \in (IF frameDelta = 0 THEN FrameDeltas ELSE {frameDelta}) :
              \E wave \in (IF observedState[o] = Null
                           THEN ElevatorMinHeight..MaxHeight ELSE {ElevatorMinHeight}) :
                  \E s \in {ElevatorUpdate([Begin("elevatorUpdate") EXCEPT
                                                !.frameDelta = delta,
                                                !.lastCall = [NoCall EXCEPT !.target = o,
                                                                            !.arg = delta]],
                                            o, delta, wave)} : Commit(s)

\* collectible.collect() or powerup.collect() called directly, on an object
\* that may have been collected already.
CollectCall ==
    \E o \in Objs :
        /\ kind[o] \in {"collectible", "powerup"}
        /\ LET s0 == [Begin("collect") EXCEPT !.lastCall = [NoCall EXCEPT !.target = o]]
           IN \E s \in {IF kind[o] = "collectible" THEN CollectibleCollect(s0, o)
                                                  ELSE PowerupCollect(s0, o)} :
                  Commit(s)

\* A toggle during which the particle collaborator may throw.
KeyToggleFaulty == KeyToggleWith(BOOLEAN, {FALSE})

\* A click during which the particle collaborator may throw.
ClickFaulty == ClickWith(BOOLEAN)

\* A toggle during which an object's setObserverMode override may dispose it.
KeyToggleReentrant == KeyToggleWith({FALSE}, BOOLEAN)

\* The drain scenario: observer mode is toggled on right after the start ...
DrainToggle == lastOp = "startGame" /\ KeyToggle

\* ... and then only frames follow, DrainSeconds of simulated time in all.
DrainUpdate ==
    /\ lastOp \in {"toggle", "update"}
    /\ QuantumUpdateWith(DrainDeltas, DrainSeconds)

\* The game as shipped: the level is loaded once and holds no power-up.
Next ==
    \/ StartGame
    \/ KeyToggle
    \/ QuantumUpdate
    \/ LevelUpdate
    \/ Click

Spec == Init /\ [][Next]_vars

\* The game with the level loaded again while it runs (toggles collapse nothing).
NextReload ==
    \/ StartGame
    \/ ReloadLevel
    \/ KeyToggleQuiet
    \/ QuantumUpdate
    \/ LevelUpdate

SpecReload == Init /\ [][NextReload]_vars

\* The game with power-ups spawned into the level (toggles collapse nothing).
NextPowerup ==
    \/ StartGame
    \/ KeyToggleQuiet
    \/ QuantumUpdate
    \/ SpawnPowerup
    \/ CollectPowerup
    \/ SpeedTimerFires
    \/ ObserverTimerFires

SpecPowerup == Init /\ [][NextPowerup]_vars

\* The game with a particle collaborator that may fail. Collapses are only
\* attempted by toggles and clicks, so no frame is taken and the energy stays full.
NextFault ==
    \/ StartGame
    \/ KeyToggleFaulty
    \/ ClickFaulty

SpecFault == Init /\ [][NextFault]_vars

\* The game with objects that dispose themselves when told the observer mode.
NextReentrant ==
    \/ StartGame
    \/ KeyToggleReentrant
    \/ QuantumUpdate

SpecReentrant == Init /\ [][NextReentrant]_vars

\* The drain scenario.
NextDrain ==
    \/ StartGame
    \/ DrainToggle
    \/ DrainUpdate

SpecDrain == Init /\ [][NextDrain]_vars

\* The registry driven through its own interface.
NextRegistry ==
    \/ StartGame
    \/ UnregisterCall
    \/ KeyToggleQuiet
    \/ LevelUpdate

SpecRegistry == Init /\ [][NextRegistry]_vars

\* The variants driven directly: constructed, collapsed and observed.
NextVariants ==
    \/ SpawnVariant
    \/ SetProbability
    \/ CollapseCall
    \/ KeyToggle

SpecVariants == Init /\ [][NextVariants]_vars

\* Obstacles and hazards constructed, collapsed, observed and queried.
NextCollision ==
    \/ SpawnHarmful
    \/ CollapseCall
    \/ CheckPlayerCollision
    \/ KeyToggle

SpecCollision == Init /\ [][NextCollision]_vars

\* An elevator, collapsed by direct calls and updated by a frame loop that
\* keeps running.
NextElevator ==
    \/ SpawnElevator
    \/ CollapseCall
    \/ ElevatorFrame

SpecElevator == Init /\ [][NextElevator]_vars /\ WF_vars(ElevatorFrame)

\* Collectibles and power-ups collapsed and collected by direct calls.
NextCollect ==
    \/ StartGame
    \/ SpawnPowerup
    \/ CollapseCollectable
    \/ CollectCall

SpecCollect == Init /\ [][NextCollect]_vars

\* Frames interleaved with the operations that register (a power-up
\* constructed), collapse, collect and so unregister objects, and toggle
\* observer mode.
NextTime ==
    \/ StartGame
    \/ QuantumUpdateLogged
    \/ KeyToggleQuiet
    \/ SpawnEnergyPowerup
    \/ CollapseCollectable
    \/ CollectCall

SpecTime == Init /\ [][NextTime]_vars

\* The wave functions queried between frames and toggles.
NextWave ==
    \/ StartGame
    \/ QuantumUpdate
    \/ KeyToggleQuiet
    \/ SuperpositionQuery
    \/ WaveQuery

SpecWave == Init /\ [][NextWave]_vars

\* Observer mode toggled by the key and by explicit calls, between frames.
NextToggle ==
    \/ StartGame
    \/ KeyToggleQuiet
    \/ ForcedToggle
    \/ QuantumUpdate

SpecToggle == Init /\ [][NextToggle]_vars

\* Levels completed and reloaded, with the portal's frames.
NextPortal ==
    \/ StartGame
    \/ ReloadLevel
    \/ KeyToggleQuiet
    \/ QuantumUpdate
    \/ LevelUpdate
    \/ PortalFrame

SpecPortal == Init /\ [][NextPortal]_vars

\* Levels of any number loaded between the game's frames.
NextDifficulty ==
    \/ StartGame
    \/ LoadLevelAt
    \/ KeyToggleQuiet
    \/ QuantumUpdate

SpecDifficulty == Init /\ [][NextDifficulty]_vars

\* Clicks in a running game, with the frames that collect collectibles.
NextClick ==
    \/ StartGame
    \/ ClickLogged
    \/ KeyToggleQuiet
    \/ LevelUpdate

SpecClick == Init /\ [][NextClick]_vars

(* ------------------------------ properties ---------------------------- *)
\* The setObserverMode calls a broadcast over registry reg with argument mode
\* makes when it visits every element once, in order.
FullBroadcast(reg, mode) == [i \in 1..Len(reg) |-> <<reg[i], mode>>]

\* A system just constructed, whatever the current one has been through:
\* the second run a wave function's result is compared with.
Fresh ==
    [State EXCEPT !.time = 0, !.observerMode = FALSE, !.currentEnergy = EnergyMax,
                  !.energyDrainRate = InitialDrainRate * Scale, !.quantumObjects = <<>>,
                  !.score = 0, !.isRunning = FALSE]

\* Everything but the per-operation log.
SystemState ==
    <<isRunning, hasPlayer, score, playerSpeed, observerMode, currentEnergy,
      energyDrainRate, time, quantumObjects, nextId, levelsLoaded, kind, ptype,
      observedState, collapseProbability, isHarmful, isOpen, isSolid, size,
      positionY, frameDelta, inScene, isCollected, platforms, obstacles,
      collectibles, levelCompleted, currentLevel, portalActive, speedTimers,
      observerTimers>>

\* Objects that have been constructed and disposed.
Disposed == {o \in Objs : kind[o] # "none" /\ ~inScene[o]}

\* C1: once an object's observedState is 0 or 1, no click, toggle, frame update
\* or collection changes it: it neither returns to null nor flips.
C1_CollapseIrreversible ==
    [][\A o \in Objs : observedState[o] # Null => observedState'[o] = observedState[o]]_vars

\* C1 witness: a toggle to ON was delivered to a registry holding an object
\* collapsed earlier, and collapsed nothing.
C1_Witness ==
    /\ lastOp = "toggle"
    /\ observerMode
    /\ lastEffects = 0
    /\ \E i \in 1..Len(lastBroadcast) : observedState[lastBroadcast[i][1]] # Null

\* C2: in every reachable state 0 <= currentEnergy <= observerModeEnergy, under
\* updates, toggles and power-up collections.
C2_EnergyInBounds == 0 <= currentEnergy /\ currentEnergy <= EnergyMax

\* C2 witness: a single 7-second frame drained the full energy (15 * 7 > 100)
\* and the clamp left it at 0.
C2_Witness ==
    /\ lastOp = "update"
    /\ time = 7
    /\ currentEnergy = 0
    /\ energyDrainRate = InitialDrainRate * Scale

\* C3 as claimed: in every step taken while observer mode is active the energy
\* does not increase, and in every step taken while it is inactive the energy
\* does not decrease.
C3_MonotoneInEveryStep ==
    [][/\ observerMode => currentEnergy' <= currentEnergy
       /\ ~observerMode => currentEnergy' >= currentEnergy]_vars

\* C3 amended: the same holds for every step that is not the collection of a
\* power-up; a power-up collection leaves the energy as it is or sets it to
\* the maximum, whatever the observer mode.
C3_MonotoneExceptPowerup ==
    [][/\ (observerMode /\ lastOp' # "collectPowerup") => currentEnergy' <= currentEnergy
       /\ ~observerMode => currentEnergy' >= currentEnergy
       /\ lastOp' = "collectPowerup" => currentEnergy' \in {currentEnergy, EnergyMax}]_vars

\* C3 witness: a frame taken with observer mode off recharged the energy to a
\* value strictly between the bounds.
C3_Witness ==
    /\ lastOp = "update"
    /\ ~observerMode
    /\ lastBroadcast = <<>>
    /\ 0 < currentEnergy
    /\ currentEnergy < EnergyMax

\* C4: whenever update(delta) has returned, observer mode active implies
\* currentEnergy > 0.
C4_ActiveImpliesEnergy == lastOp = "update" => (observerMode => currentEnergy > 0)

\* C4 witness: an update drained the energy to 0 and forced observer mode off
\* in the same call (the broadcast of false was delivered).
C4_Witness ==
    /\ lastOp = "update"
    /\ currentEnergy = 0
    /\ ~observerMode
    /\ lastBroadcast # <<>>
    /\ \A i \in 1..Len(lastBroadcast) : lastBroadcast[i][2] = FALSE

\* C5 as claimed: in the drain scenario the energy is never negative, and once
\* DrainSeconds of simulated time have passed the energy is 0 and observer
\* mode is off.
C5_DrainEndsAtZero ==
    /\ currentEnergy >= 0
    /\ time = DrainSeconds => (currentEnergy = 0 /\ ~observerMode)

\* C5 amended: in the drain scenario the energy is never negative, observer
\* mode is off once DrainSeconds have passed, and the energy is 0 when the
\* update that depletes it returns; frames after that one recharge it.
C5_DrainDisables ==
    /\ currentEnergy >= 0
    /\ time = DrainSeconds => ~observerMode
    /\ (lastOp = "update" /\ lastBroadcast # <<>>) => (currentEnergy = 0 /\ ~observerMode)

\* C5 witness: the whole DrainSeconds have passed and the last frame is the one
\* that depleted the energy and switched observer mode off.
C5_Witness ==
    /\ lastOp = "update"
    /\ time = DrainSeconds
    /\ lastBroadcast # <<>>
    /\ currentEnergy = 0
    /\ ~observerMode

\* C6: a toggle without argument made with observer mode off and
\* currentEnergy <= 0 leaves the mode off, broadcasts nothing and collapses
\* nothing; a toggle made with observer mode on always turns it off.
C6_EnergyGate ==
    [][lastOp' = "toggle" =>
          /\ (~observerMode /\ currentEnergy <= 0) =>
                 /\ ~observerMode'
                 /\ lastBroadcast' = <<>>
                 /\ observedState' = observedState
                 /\ lastEffects' = 0
          /\ observerMode => ~observerMode']_vars

\* C6 witness: a toggle was refused at energy 0 with objects registered.
C6_Witness ==
    /\ lastOp = "toggle"
    /\ ~observerMode
    /\ currentEnergy = 0
    /\ quantumObjects # <<>>
    /\ lastBroadcast = <<>>

\* C7: a toggleObserverMode call that changes observerMode (the key's, or the
\* one an update makes on depletion) delivers setObserverMode(newState) once to
\* every object of the registry, in registry order.
C7_BroadcastInOrder ==
    [][(lastOp' \in {"toggle", "update"} /\ observerMode' # observerMode) =>
          lastBroadcast' = FullBroadcast(quantumObjects, observerMode')]_vars

\* C7 witness: a toggle to ON reached at least two objects.
C7_Witness ==
    /\ lastOp = "toggle"
    /\ observerMode
    /\ Len(lastBroadcast) >= 2
    /\ Len(lastBroadcast) = Len(quantumObjects)

\* C8: when an object is disposed from inside its setObserverMode callback,
\* every object registered when the broadcast began still receives
\* setObserverMode exactly once.
C8_BroadcastSurvivesDisposal ==
    [][(lastOp' = "toggle" /\ observerMode' # observerMode) =>
          \A o \in Range(quantumObjects) :
              Cardinality({i \in 1..Len(lastBroadcast') : lastBroadcast'[i][1] = o}) = 1]_vars

\* C9: a collapse that raises during the broadcast does not leave
\* toggleObserverMode, and the broadcast still reaches every object of the
\* registry.
C9_FaultContained ==
    /\ lastOp = "toggle" => ~thrown
    /\ (lastOp = "toggle" /\ lastCaught # <<>>) =>
           lastBroadcast = FullBroadcast(quantumObjects, observerMode)

\* C9 witness: the collapse of the first object of the registry raised, and the
\* objects after it were still called.
C9_Witness ==
    /\ lastOp = "toggle"
    /\ lastCaught # <<>>
    /\ Len(quantumObjects) >= 2
    /\ lastCaught[1] = quantumObjects[1]
    /\ Len(lastBroadcast) = Len(quantumObjects)

\* C10: no object is in the registry twice, and no update or broadcast calls
\* updateQuantumState or setObserverMode on a disposed object.
C10_RegistryConsistent ==
    /\ NoDuplicates(quantumObjects)
    /\ \A o \in Disposed :
          /\ o \notin Range(lastUpdated)
          /\ \A i \in 1..Len(lastBroadcast) : lastBroadcast[i][1] # o

\* C10 witness: with one object disposed by collection and one by clearing the
\* level, an update ran a broadcast and the per-object updates.
C10_Witness ==
    /\ lastOp = "update"
    /\ lastBroadcast # <<>>
    /\ lastUpdated # <<>>
    /\ \E o \in Disposed : isCollected[o] = "true"
    /\ \E o \in Disposed : kind[o] = "platform"

\* C11: unregisterQuantumObject on an object that is not in the registry
\* raises nothing and leaves the registry's contents and order as they were.
C11_UnregisterAbsent ==
    [][(lastOp' = "unregister" /\ lastCall'.target \notin Range(quantumObjects)) =>
          (quantumObjects' = quantumObjects /\ ~thrown')]_vars

\* C11 witness: an object of the game that had already been removed was
\* unregistered again while other objects were registered.
C11_Witness ==
    /\ lastOp = "unregister"
    /\ lastCall.result = 0
    /\ kind[lastCall.target] # "none"
    /\ Len(quantumObjects) >= 2

\* C12: a QuantumSystem.update frame calls updateQuantumState on every
\* registered object, and for an object whose observedState is 0 or 1 the call
\* changes neither observedState nor superpositionFactor.
C12_CollapsedNotUpdated ==
    [][lastOp' = "update" =>
          \A o \in Objs :
              observedState[o] # Null =>
                  /\ observedState'[o] = observedState[o]
                  /\ o \notin Range(lastRecomputed')]_vars

\* C12 witness: a frame called updateQuantumState on a collapsed object and on
\* a superposed one, and recomputed only the latter.
C12_Witness ==
    /\ lastOp = "update"
    /\ \E o \in Range(lastUpdated) : observedState[o] # Null
    /\ lastRecomputed # <<>>

\* C13: for every variant, collapse(forcedState) with forcedState 0 or 1 sets
\* observedState to forcedState, returns it, and makes exactly one particle
\* effect request and one score increment of 10.
C13_ForcedCollapse ==
    [][(lastOp' = "collapse" /\ lastCall'.arg \in {0, 1}) =>
          /\ observedState'[lastCall'.target] = lastCall'.arg
          /\ lastCall'.result = lastCall'.arg
          /\ ~thrown'
          /\ lastEffects' = 1
          /\ score' = score + CollapseScore]_vars

\* C14: an unforced collapse resolves to 1 exactly when its sample r satisfies
\* r < collapseProbability, so always to 0 with probability 0 and always to 1
\* with probability 1.
C14_UnforcedCollapse ==
    [][(lastOp' = "collapse" /\ lastCall'.arg = Undefined) =>
          LET o == lastCall'.target
              p == collapseProbability[o]
          IN /\ observedState'[o] = (IF lastCall'.sample < p THEN 1 ELSE 0)
             /\ p = 0 => observedState'[o] = 0
             /\ p = 100 => observedState'[o] = 1]_vars

\* C14 witness: with collapseProbability 0 the smallest sample, 0, resolved
\* to state 0.
C14_Witness ==
    /\ lastOp = "collapse"
    /\ lastCall.arg = Undefined
    /\ lastCall.sample = 0
    /\ collapseProbability[lastCall.target] = 0
    /\ observedState[lastCall.target] = 0

\* C15: setObserverMode(active) changes nothing (no state, no effect, no
\* score) when active is false or the object is already collapsed; observer
\* mode collapses an object only in a broadcast with active = true while the
\* object is still superposed.
C15_ObserverModeEffect ==
    [][lastOp' = "toggle" =>
          LET called(o, m) == \E i \in 1..Len(lastBroadcast') : lastBroadcast'[i] = <<o, m>>
              changed == {o \in Objs : observedState'[o] # observedState[o]}
          IN /\ \A o \in changed : observedState[o] = Null /\ called(o, TRUE)
             /\ \A o \in Objs : called(o, FALSE) => o \notin changed
             /\ score' = score + CollapseScore * Cardinality(changed)
             /\ lastEffects' = Cardinality(changed)]_vars

\* C15 witness: a broadcast with active = false reached a superposed object
\* and a collapsed one, and made no effect request.
C15_Witness ==
    /\ lastOp = "toggle"
    /\ ~observerMode
    /\ lastEffects = 0
    /\ \E i, j \in 1..Len(lastBroadcast) :
          /\ lastBroadcast[i][2] = FALSE
          /\ observedState[lastBroadcast[i][1]] = Null
          /\ observedState[lastBroadcast[j][1]] # Null

\* C16: a click while the game is running affects at most one quantum object,
\* the first clickable hit: if it is superposed it becomes collapsed and the
\* score rises by exactly 15; if it is already collapsed neither its state
\* nor the score changes, and no object behind it is collapsed.
C16_ClickFirstHit ==
    [][(lastOp' = "click" /\ isRunning) =>
          LET hits == lastCall'.hits
              clickable == {i \in 1..Len(hits) : hits[i] # 0}
              first == IF clickable = {} THEN 0
                       ELSE hits[CHOOSE i \in clickable : \A j \in clickable : i <= j]
          IN /\ \A o \in Objs \ {first} : observedState'[o] = observedState[o]
             /\ (first # 0 /\ observedState[first] = Null) =>
                    /\ observedState'[first] \in {0, 1}
                    /\ score' = score + CollapseScore + ClickBonus
             /\ (first = 0 \/ observedState[first] # Null) =>
                    /\ observedState' = observedState
                    /\ score' = score]_vars

\* C16 witness: a click whose ray met two quantum objects left the nearer one
\* collapsed and the one behind it superposed.
C16_Witness ==
    /\ lastOp = "click"
    /\ isRunning
    /\ Len(lastCall.hits) = 2
    /\ lastCall.hits[1] # 0
    /\ lastCall.hits[2] # 0
    /\ observedState[lastCall.hits[1]] # Null
    /\ observedState[lastCall.hits[2]] = Null

\* C17: an Obstacle collapsed to state 1 reports isHarmful = true and its
\* checkPlayerCollision returns true exactly when distance is below
\* size/2 + playerRadius (false at the boundary); a superposed obstacle or one
\* collapsed to state 0 reports no collision at any distance.
C17_ObstacleCollision ==
    \A o \in Objs : kind[o] = "obstacle" =>
        /\ observedState[o] = 1 => isHarmful[o] = "true"
        /\ (lastOp = "checkPlayerCollision" /\ lastCall.target = o) =>
              lastCall.result =
                 (IF observedState[o] = 1 /\ lastCall.arg < size[o] \div 2 + PlayerRadius
                  THEN 1 ELSE 0)

\* C17 witness: an obstacle collapsed to state 1 was queried at exactly the
\* combined radius and reported no collision.
C17_Witness ==
    /\ lastOp = "checkPlayerCollision"
    /\ kind[lastCall.target] = "obstacle"
    /\ observedState[lastCall.target] = 1
    /\ isHarmful[lastCall.target] = "true"
    /\ lastCall.arg = size[lastCall.target] \div 2 + PlayerRadius
    /\ lastCall.result = 0

\* C18: Hazard.checkPlayerCollision returns true only if the hazard has
\* collapsed to state 1; a hazard that is superposed or collapsed to state 0
\* never reports a collision, at any distance.
C18_HazardCollision ==
    (/\ lastOp = "checkPlayerCollision"
     /\ kind[lastCall.target] = "hazard"
     /\ lastCall.result = 1) => observedState[lastCall.target] = 1

\* C19: in every reachable state of a Door, isOpen is true if and only if
\* observedState = 1: forced to 1 it is open, forced to 0 it is closed, and a
\* superposed door is not open.
C19_DoorOpenIffOne ==
    \A o \in Objs : kind[o] = "door" =>
        /\ isOpen[o] \in {"true", "false"}
        /\ isOpen[o] = "true" <=> observedState[o] = 1

\* C19 witness: a door was forced to state 1 and reports isOpen = true.
C19_Witness ==
    /\ lastOp = "collapse"
    /\ kind[lastCall.target] = "door"
    /\ lastCall.arg = 1
    /\ observedState[lastCall.target] = 1
    /\ isOpen[lastCall.target] = "true"

\* C20: after an Elevator collapses, repeated update(delta) calls with a fixed
\* positive frame delta eventually bring position.y exactly to the target
\* height (maxHeight for state 1, minHeight for state 0), where it stays; it
\* does not oscillate around the target forever.
C20_ElevatorArrives ==
    <>[](\A o \in Objs :
            (kind[o] = "elevator" /\ observedState[o] # Null) =>
                positionY[o] = ElevatorTarget(observedState[o]))

\* C21: collect() on a Collectible or Powerup takes effect at most once: the
\* first call marks the object collected, awards its score once and disposes
\* and unregisters it; every later call changes nothing; and the outcome does
\* not depend on the object being superposed, collapsed to 0 or collapsed to 1.
C21_CollectOnce ==
    [][lastOp' = "collect" =>
          LET o == lastCall'.target
          IN IF isCollected[o] = "true"
             THEN /\ score' = score
                  /\ lastEffects' = 0
                  /\ quantumObjects' = quantumObjects
                  /\ inScene' = inScene
                  /\ isCollected' = isCollected
                  /\ observedState' = observedState
                  /\ <<currentEnergy', energyDrainRate', playerSpeed'>> =
                        <<currentEnergy, energyDrainRate, playerSpeed>>
                  /\ <<speedTimers', observerTimers'>> = <<speedTimers, observerTimers>>
             ELSE /\ score' = score + CollectScore
                  /\ isCollected' = [isCollected EXCEPT ![o] = "true"]
                  /\ o \notin Range(quantumObjects')
                  /\ ~inScene'[o]
                  /\ \A x \in Range(quantumObjects) \ {o} : x \in Range(quantumObjects')
                  /\ observedState' = observedState]_vars

\* C21 witness: a second collect() on a collectible that had collapsed to
\* state 0 before it was collected did nothing.
C21_Witness ==
    /\ lastOp = "collect"
    /\ kind[lastCall.target] = "collectible"
    /\ isCollected[lastCall.target] = "true"
    /\ observedState[lastCall.target] = 0
    /\ lastEffects = 0
    /\ score = CollapseScore + CollectScore

\* C22: the time uniform never decreases over update(delta) calls with
\* delta >= 0, grows by exactly delta per update, and is changed by no other
\* operation (toggle, register, unregister, collapse, collect).
C22_TimeAccumulates ==
    [][IF lastOp' = "update"
       THEN /\ lastCall'.arg >= 0
            /\ time' = time + lastCall'.arg
            /\ time' >= time
       ELSE time' = time]_vars

\* C22 witness: a second update, of 4 seconds after one of 7, left the time
\* uniform at their sum.
C22_Witness ==
    /\ lastOp = "update"
    /\ lastCall.arg = 4
    /\ time = 11

\* C23: getSuperpositionState(p, t) and getWaveFunction(p, t) are
\* deterministic and side-effect free: the value returned for (p, t) in any
\* state of the system is the value a freshly constructed system returns for
\* the same (p, t), and the call changes no system or object state.
C23_WaveFunctionsPure ==
    [][lastOp' \in {"getSuperpositionState", "getWaveFunction"} =>
          /\ lastCall'.result =
                (IF lastOp' = "getSuperpositionState"
                 THEN GetSuperpositionState(Fresh, lastCall'.position, lastCall'.arg)
                 ELSE GetWaveFunction(Fresh, lastCall'.position, lastCall'.arg))
          /\ lastCall'.result \in 0..1000
          /\ SystemState' = SystemState]_vars

\* C23 witness: getSuperpositionState was asked about time 4 in a system
\* whose own time is 7 and whose observer mode is on.
C23_Witness ==
    /\ lastOp = "getSuperpositionState"
    /\ lastCall.arg = 4
    /\ lastCall.position = <<10, 5, 20>>
    /\ time = 7
    /\ observerMode

\* C24: a toggleObserverMode call that leaves observerMode unchanged (a
\* refused toggle, or an explicit forceState equal to the current state)
\* performs no setObserverMode broadcast, collapses no object and awards no
\* score.
C24_NoBroadcastWithoutChange ==
    [][(lastOp' = "toggle" /\ observerMode' = observerMode) =>
          /\ lastBroadcast' = <<>>
          /\ observedState' = observedState
          /\ score' = score]_vars

\* C25: for any interleaving of 'observer' and 'speed' power-up collections
\* and their timer expirations, once every pending timer has fired
\* energyDrainRate and player.speed are back at the values they had before
\* any power-up was collected.
C25_RatesRestored ==
    (speedTimers = <<>> /\ observerTimers = <<>>) =>
        /\ energyDrainRate = InitialDrainRate * Scale
        /\ playerSpeed = InitialPlayerSpeed * Scale

\* C26: in every reachable state in which a collapse has been attempted on a
\* variant object, including an observer-forced collapse whose failure was
\* caught, the variant flag agrees with observedState: Door.isOpen,
\* Bridge.isSolid, Obstacle.isHarmful and Hazard.isHarmful are true exactly
\* when observedState = 1.
C26_FlagAgreesWithState ==
    \A o \in Objs :
        LET flag == CASE kind[o] = "door" -> isOpen[o]
                      [] kind[o] = "bridge" -> isSolid[o]
                      [] OTHER -> isHarmful[o]
        IN (kind[o] \in {"door", "bridge", "obstacle", "hazard"} /\ observedState[o] # Null) =>
               (flag = "true" <=> observedState[o] = 1)

\* C27: after every loadLevel call and after every LevelManager.update call
\* the set of registered quantum objects equals the union of the level
\* manager's platforms, obstacles and collectibles lists: collected
\* collectibles are in neither, and reloading a level leaves no object of the
\* previous level registered.
C27_RegistryIsLevel ==
    lastOp \in {"startGame", "loadLevel", "levelUpdate"} =>
        /\ Range(quantumObjects) =
              Range(platforms) \cup Range(obstacles) \cup Range(collectibles)
        /\ \A o \in Objs : isCollected[o] = "true" =>
              o \notin Range(quantumObjects) /\ o \notin Range(collectibles)
        /\ Range(quantumObjects) \cap Disposed = {}

\* C27 witness: a frame of the level manager ran on a reloaded level after a
\* collectible had been collected.
C27_Witness ==
    /\ lastOp = "levelUpdate"
    /\ levelsLoaded >= 2
    /\ \E o \in Objs : kind[o] = "collectible" /\ isCollected[o] = "true"
    /\ \E o \in Disposed : kind[o] = "platform"
    /\ quantumObjects # <<>>

\* C28: under any sequence of clicks, observer-mode toggles, updates and
\* collections the score never decreases, and each quantum object contributes
\* its 10-point collapse score and its collapse particle effect at most once
\* over its lifetime: only a step that takes it out of superposition awards
\* them, and no step puts it back.
C28_ScoreMonotone ==
    [][LET collapsed == {o \in Objs : observedState[o] = Null /\ observedState'[o] # Null}
           collected == {o \in Objs : isCollected[o] # "true" /\ isCollected'[o] = "true"}
       IN /\ score' >= score
          /\ \A o \in Objs : (kind[o] # "none" /\ observedState[o] # Null) =>
                observedState'[o] = observedState[o]
          /\ lastOp' \in {"toggle", "click", "update"} =>
                /\ lastEffects' = Cardinality(collapsed)
                /\ score' = score + CollapseScore * Cardinality(collapsed)
                            + (IF lastOp' = "click" THEN ClickBonus * Cardinality(collapsed) ELSE 0)
          /\ lastOp' = "levelUpdate" =>
                /\ collapsed = {}
                /\ score' = score + (CollectScore + CollectionBonus) * Cardinality(collected)]_vars

\* C28 witness: observer mode was switched on over a registry whose objects
\* had all collapsed before, and nothing was awarded.
C28_Witness ==
    /\ lastOp = "toggle"
    /\ observerMode
    /\ Len(lastBroadcast) >= 2
    /\ \A o \in Range(quantumObjects) : observedState[o] # Null
    /\ lastEffects = 0
    /\ score > 0

\* C29: levelCompleted is true only if the collectibles list is empty; once
\* true it stays true until the next loadLevel; the portal is activated only
\* after levelCompleted is true and is never deactivated afterwards.
C29_PortalNeverDeactivated ==
    [][/\ levelCompleted' => collectibles' = <<>>
       /\ (levelCompleted /\ ~levelCompleted') => lastOp' = "loadLevel"
       /\ (~portalActive /\ portalActive') => levelCompleted
       /\ portalActive => portalActive']_vars

\* C29 as amended: the portal, once activated, stays active until the next
\* loadLevel, whose createPortal sets it inactive again.
C29_PortalActiveUntilReload ==
    [][/\ levelCompleted' => collectibles' = <<>>
       /\ (levelCompleted /\ ~levelCompleted') => lastOp' = "loadLevel"
       /\ (~portalActive /\ portalActive') => levelCompleted
       /\ (portalActive /\ ~portalActive') => lastOp' = "loadLevel"]_vars

\* C29 witness: on a reloaded level whose collectibles were all collected the
\* portal's frame found the level completed and the portal is active.
C29_Witness ==
    /\ lastOp = "portalUpdate"
    /\ portalActive
    /\ levelCompleted
    /\ collectibles = <<>>
    /\ levelsLoaded >= 2

\* C30: for every integer level >= 0, after updateDifficulty every obstacle
\* has collapseProbability = max(0.1, 0.5 - 0.05*level) and every platform
\* max(0.3, 0.7 - 0.03*level), so all collapse probabilities stay within
\* [0,1] and never rise as the level increases.
C30_DifficultyClamped ==
    [][lastOp' \in {"startGame", "loadLevel"} =>
          /\ \A o \in Range(obstacles') :
                collapseProbability'[o] = Max(10, 50 - 5 * currentLevel')
          /\ \A o \in Range(platforms') :
                collapseProbability'[o] = Max(30, 70 - 3 * currentLevel')
          /\ \A o \in Range(quantumObjects') : collapseProbability'[o] \in 0..100
          /\ currentLevel' >= currentLevel =>
                /\ \A o \in Range(obstacles), n \in Range(obstacles') :
                      collapseProbability'[n] <= collapseProbability[o]
                /\ \A o \in Range(platforms), n \in Range(platforms') :
                      collapseProbability'[n] <= collapseProbability[o]]_vars

\* C30 witness: level 14 was loaded and both lower limits apply.
C30_Witness ==
    /\ lastOp = "loadLevel"
    /\ currentLevel = 14
    /\ \E o \in Range(obstacles) : collapseProbability[o] = 10
    /\ \E o \in Range(platforms) : collapseProbability[o] = 30

====
